---- MODULE Spec2Model ----
(***************************************************************************)
(* A model of sloggers' file logger: the configuration dispatch            *)
(* (src/config.rs), the file logger builder and its FileAppender           *)
(* (src/file.rs) and the error kinds (src/error.rs), together with the     *)
(* part of the filesystem the appender talks to.                           *)
(*                                                                         *)
(* Filesystem: `dir` maps a path to the inode it names (0: no entry),      *)
(* `fds` maps a handle to the inode it is open on (0: no such handle; a    *)
(* handle is named after the appender that opened it), `data` holds the    *)
(* content of every inode (an unlinked inode keeps its content while a     *)
(* handle is open on it), `canOpen` tells whether an open(2) with          *)
(* O_CREAT|O_APPEND on a non-empty path succeeds (permissions, parent      *)
(* directory, descriptor limits).                                          *)
(*                                                                         *)
(* FileAppender::write is one atomic step; external events on the path     *)
(* happen between writes.  File::write on the handle appends the whole     *)
(* buffer (O_APPEND) and File::flush is the no-op it is for a std File.    *)
(***************************************************************************)
EXTENDS Integers, Sequences, FiniteSets, TLC

VARIABLES dir, data, fds, canOpen,   \* the filesystem
          writers,                   \* every FileAppender: [path, file, owner]
          builders,                  \* every FileLoggerBuilder
          sinks,                     \* every Logger built: its pipeline state
          last,                      \* the last operation and what it returned
          rt,                        \* monitor of write / delete / write
          emitted, offered, queue,   \* records given to the sink, to Async, queued
          doc, out                   \* a configuration document and its dispatch

vars == <<dir, data, fds, canOpen, writers, builders, sinks, last, rt,
          emitted, offered, queue, doc, out>>

fsVars == <<dir, data, fds, canOpen>>
sinkVars == <<emitted, offered, queue>>
cfgVars == <<doc, out>>

----------------------------------------------------------------------------
(* Bounds *)
MaxWriters == 3
MaxBytes == 2
MaxEmit == 3

PathSeq == <<"a.log", "b.log">>
RealPaths == {PathSeq[k] : k \in 1..Len(PathSeq)}
Paths == RealPaths \cup {""}
Bufs == {<<1>>, <<2>>}

\* a handle is named after the appender that opened it; an inode for every
\* name and every handle, so that no creation fails for want of a slot
Handles == 1..MaxWriters
Inodes == 1..(Len(PathSeq) + MaxWriters)

----------------------------------------------------------------------------
(* Value types (src/types.rs is not among the sources: from the            *)
(* specification, section 3)                                               *)
Severities == {"Trace", "Debug", "Info", "Warning", "Error", "Critical"}
Formats == {"Full", "Compact"}
TimeZones == {"Local", "Utc"}

Rank(s) ==
    CASE s = "Trace" -> 0
      [] s = "Debug" -> 1
      [] s = "Info" -> 2
      [] s = "Warning" -> 3
      [] s = "Error" -> 4
      [] s = "Critical" -> 5

SeverityDefault == "Info"
FormatDefault == "Full"
TimeZoneDefault == "Local"

\* Severity::set_level_filter: the predicate of the level filter it installs
passes(record_level, minimum) == Rank(record_level) >= Rank(minimum)

----------------------------------------------------------------------------
(* The filesystem as the appender sees it *)

\* Path::exists
path_exists(p) == p \in RealPaths /\ dir[p] # 0

\* whether OpenOptions::open can succeed on p (the empty path never opens)
OpenOk(p) == p \in RealPaths /\ canOpen

InUse(d, f, i) == (\E p \in RealPaths : d[p] = i) \/ (\E h \in Handles : f[h] = i)

\* the lowest inode number not in use
FreeIno(d, f) ==
    CHOOSE i \in Inodes : ~InUse(d, f, i) /\ \A j \in 1..(i - 1) : InUse(d, f, j)

\* Inode numbers are names only.  Normal form: an inode with no name and no
\* open handle is gone, and an inode in use is numbered after the first of
\* the names, then the handles, that refers to it.
Refs(d, f) == [k \in 1..Len(PathSeq) |-> d[PathSeq[k]]] \o [h \in Handles |-> f[h]]

FirstRef(refs, i) ==
    IF i = 0 THEN 0
    ELSE CHOOSE k \in 1..Len(refs) : refs[k] = i /\ \A j \in 1..(k - 1) : refs[j] # i

Normal(d, f, dt) ==
    LET refs == Refs(d, f)
    IN [dir |-> [p \in RealPaths |-> FirstRef(refs, d[p])],
        fds |-> [h \in Handles |-> FirstRef(refs, f[h])],
        data |-> [n \in Inodes |->
                    IF refs[n] # 0 /\ FirstRef(refs, refs[n]) = n
                    THEN dt[refs[n]] ELSE <<>>]]

\* OpenOptions::new().create(true).append(true).write(true).open(p), the new
\* handle being named h
open(p, h) ==
    IF ~OpenOk(p)
    THEN [ok |-> FALSE, fd |-> 0, dir |-> dir, fds |-> fds]
    ELSE LET ino == IF dir[p] # 0 THEN dir[p] ELSE FreeIno(dir, fds)
         IN [ok |-> TRUE, fd |-> h, dir |-> [dir EXCEPT ![p] = ino],
             fds |-> [fds EXCEPT ![h] = ino]]

----------------------------------------------------------------------------
(* FileAppender *)

\* FileAppender::new
FileAppenderNew(p) == [path |-> p, file |-> 0]

\* a clone that copies the open handle along with the path
clone_CopiesHandle(a) == [path |-> a.path, file |-> a.file]

\* impl Clone for FileAppender
clone(a) == [path |-> a.path, file |-> 0]

\* a reopen only when no handle is held: a deleted file goes unnoticed
reopen_needed_HandleOnly(exists, isNone) == isNone

\* a reopen when the path exists (the test on the path inverted)
reopen_needed_Inverted(exists, isNone) == exists \/ isNone

\* the condition of reopen_if_needed
reopen_needed(exists, isNone) == ~exists \/ isNone

\* a reopen that gives up the handle held before it tries to open
reopen_if_needed_ClearsFirst(a, w) ==
    IF reopen_needed(path_exists(a.path), a.file = 0)
    THEN LET o == open(a.path, w)
         IN IF o.ok
            THEN [ok |-> TRUE, tried |-> TRUE, file |-> o.fd,
                  dir |-> o.dir, fds |-> o.fds]
            ELSE [ok |-> FALSE, tried |-> TRUE, file |-> 0,
                  dir |-> dir, fds |-> fds]
    ELSE [ok |-> TRUE, tried |-> FALSE, file |-> a.file,
          dir |-> dir, fds |-> fds]

\* FileAppender::reopen_if_needed on appender a, which is writer w: the
\* assignment to self.file drops (closes) the File held before
reopen_if_needed(a, w) ==
    IF reopen_needed(path_exists(a.path), a.file = 0)
    THEN LET o == open(a.path, w)
         IN IF o.ok
            THEN [ok |-> TRUE, tried |-> TRUE, file |-> o.fd,
                  dir |-> o.dir, fds |-> o.fds]
            ELSE [ok |-> FALSE, tried |-> TRUE, file |-> a.file,
                  dir |-> dir, fds |-> fds]
    ELSE [ok |-> TRUE, tried |-> FALSE, file |-> a.file,
          dir |-> dir, fds |-> fds]

\* <FileAppender as Write>::write
write(a, w, buf) ==
    LET r == reopen_if_needed(a, w)
    IN IF ~r.ok
       THEN [res |-> "IoErr", tried |-> r.tried, file |-> r.file, ino |-> 0,
             dir |-> r.dir, data |-> data, fds |-> r.fds]
       ELSE IF r.file # 0
            THEN LET ino == r.fds[r.file]
                 IN [res |-> "Ok", tried |-> r.tried, file |-> r.file, ino |-> ino,
                     dir |-> r.dir,
                     data |-> [data EXCEPT ![ino] = data[ino] \o buf],
                     fds |-> r.fds]
            ELSE [res |-> "CannotOpen", tried |-> r.tried, file |-> r.file,
                  ino |-> 0, dir |-> r.dir, data |-> data, fds |-> r.fds]

\* a flush that treats a missing handle as an error
flush_NeedsHandle(a) ==
    [res |-> IF a.file = 0 THEN "CannotOpen" ELSE "Ok",
     flushed |-> a.file, file |-> a.file]

\* <FileAppender as Write>::flush: the handle flushed (0: none), the result
\* (File::flush cannot fail) and the handle held afterwards
flush(a) == [res |-> "Ok", flushed |-> a.file, file |-> a.file]

----------------------------------------------------------------------------
(* FileLoggerBuilder *)

\* FileLoggerBuilder::new, with the appender it creates stored as writer w
FileLoggerBuilderNew(w) ==
    [format |-> FormatDefault, timezone |-> TimeZoneDefault,
     level |-> SeverityDefault, appender |-> w, channel_size |-> 1024]

\* the setters of FileLoggerBuilder
format(b, f) == [b EXCEPT !.format = f]
timezone(b, tz) == [b EXCEPT !.timezone = tz]
level(b, severity) == [b EXCEPT !.level = severity]
channel_size(b, n) == [b EXCEPT !.channel_size = n]

\* a pipeline with the level filter inside the asynchronous drain: every
\* record is queued and the filter runs on the worker
build_with_drain_FilterInside(b, drain) ==
    [layers |-> <<"async", "level_filter">>, level |-> b.level,
     channel_size |-> b.channel_size, drain |-> drain]

\* FileLoggerBuilder::build_with_drain: Async around the drain, the level
\* filter around Async; `layers` lists the wrappers from the outside in
build_with_drain(b, drain) ==
    [layers |-> <<"level_filter", "async">>, level |-> b.level,
     channel_size |-> b.channel_size, drain |-> drain]

\* FileLoggerBuilder::build: the logger over the clone of the appender, the
\* clone being stored as writer w
build(b, w) ==
    [ok |-> TRUE,
     logger |-> build_with_drain(b, [format |-> b.format, timezone |-> b.timezone,
                                     appender |-> w])]

----------------------------------------------------------------------------
(* The record of the last operation *)
NoEv ==
    [op |-> "init", w |-> 0, buf |-> <<>>, res |-> "Ok", tried |-> FALSE,
     atPath |-> FALSE, flushed |-> 0, src |-> 0]

NoRt == [stage |-> 0, w |-> 0, b1 |-> <<>>]

InitFs ==
    /\ dir = [p \in RealPaths |-> 0]
    /\ data = [i \in Inodes |-> <<>>]
    /\ fds = [h \in Handles |-> 0]
    /\ canOpen \in BOOLEAN

InitIdle ==
    /\ last = NoEv
    /\ rt = NoRt
    /\ emitted = <<>>
    /\ offered = <<>>
    /\ queue = <<>>
    /\ doc = [tag |-> "null"]
    /\ out = [op |-> "init"]

\* the bytes stored in the inodes 1..n
RECURSIVE Stored(_, _)
Stored(dt, n) == IF n = 0 THEN 0 ELSE Len(dt[n]) + Stored(dt, n - 1)

\* the filesystem after a step, in normal form
SetFs(d, f, dt) ==
    LET n == Normal(d, f, dt)
    IN /\ dir' = n.dir
       /\ fds' = n.fds
       /\ data' = n.data

\* the FileAppender that is writer w
Appender(w) == [path |-> writers[w].path, file |-> writers[w].file]

----------------------------------------------------------------------------
(* Operations on appenders and builders *)

\* FileLoggerBuilder::build on builder i
Build(i) ==
    /\ i \in 1..Len(builders)
    /\ Len(writers) < MaxWriters
    /\ LET b == builders[i]
           w == Len(writers) + 1
       IN /\ writers' = Append(writers, clone(Appender(b.appender)) @@ [owner |-> "sink"])
          /\ sinks' = Append(sinks, build(b, w).logger)
          /\ last' = [NoEv EXCEPT !.op = "build", !.w = w, !.src = b.appender,
                         !.res = IF build(b, w).ok THEN "Ok" ELSE "Other"]
    /\ rt' = NoRt
    /\ UNCHANGED <<fsVars, builders, sinkVars, cfgVars>>

\* FileAppender::clone on writer s
Clone(s) ==
    /\ s \in 1..Len(writers)
    /\ Len(writers) < MaxWriters
    /\ writers' = Append(writers, clone(Appender(s)) @@ [owner |-> "clone"])
    /\ last' = [NoEv EXCEPT !.op = "clone", !.w = Len(writers) + 1, !.src = s]
    /\ rt' = NoRt
    /\ UNCHANGED <<fsVars, builders, sinks, sinkVars, cfgVars>>

\* FileAppender::write(buf) on writer w; a builder's own appender is private
\* to the builder, which only clones it
Write(w, buf) ==
    /\ w \in 1..Len(writers)
    /\ writers[w].owner # "builder"
    /\ LET a == Appender(w)
           r == write(a, w, buf)
       IN /\ Stored(r.data, Len(PathSeq) + MaxWriters) <= MaxBytes
          /\ SetFs(r.dir, r.fds, r.data)
          /\ writers' = [writers EXCEPT ![w].file = r.file]
          /\ last' = [NoEv EXCEPT !.op = "write", !.w = w, !.buf = buf,
                         !.res = r.res, !.tried = r.tried,
                         !.atPath = /\ r.ino # 0
                                    /\ a.path \in RealPaths
                                    /\ r.dir[a.path] = r.ino]
          /\ rt' = IF rt.stage = 2 /\ rt.w = w
                   THEN [rt EXCEPT !.stage = 3]
                   ELSE NoRt
    /\ UNCHANGED <<canOpen, builders, sinks, sinkVars, cfgVars>>

\* FileAppender::flush on writer w
Flush(w) ==
    /\ w \in 1..Len(writers)
    /\ LET r == flush(Appender(w))
       IN /\ writers' = [writers EXCEPT ![w].file = r.file]
          /\ last' = [NoEv EXCEPT !.op = "flush", !.w = w, !.res = r.res,
                         !.flushed = r.flushed]
    /\ rt' = NoRt
    /\ UNCHANGED <<fsVars, builders, sinks, sinkVars, cfgVars>>

----------------------------------------------------------------------------
(* External events on the paths *)

\* another process unlinks p
ExtDelete(p) ==
    /\ dir[p] # 0
    /\ SetFs([dir EXCEPT ![p] = 0], fds, data)
    /\ last' = [NoEv EXCEPT !.op = "external"]
    /\ rt' = IF /\ last.op = "write" /\ last.res = "Ok"
                /\ writers[last.w].path = p
             THEN [stage |-> 2, w |-> last.w, b1 |-> last.buf]
             ELSE NoRt
    /\ UNCHANGED <<canOpen, writers, builders, sinks, sinkVars, cfgVars>>

\* another process renames p to q (log rotation), replacing q's entry
ExtRename(p, q) ==
    /\ p # q
    /\ dir[p] # 0
    /\ SetFs([dir EXCEPT ![p] = 0, ![q] = dir[p]], fds, data)
    /\ last' = [NoEv EXCEPT !.op = "external"]
    /\ rt' = NoRt
    /\ UNCHANGED <<canOpen, writers, builders, sinks, sinkVars, cfgVars>>

\* another process truncates the file at p
ExtTruncate(p) ==
    /\ dir[p] # 0
    /\ data[dir[p]] # <<>>
    /\ data' = [data EXCEPT ![dir[p]] = <<>>]
    /\ last' = [NoEv EXCEPT !.op = "external"]
    /\ rt' = NoRt
    /\ UNCHANGED <<dir, fds, canOpen, writers, builders, sinks, sinkVars, cfgVars>>

\* another process creates a new, empty file at p
ExtCreate(p) ==
    /\ dir[p] = 0
    /\ SetFs([dir EXCEPT ![p] = FreeIno(dir, fds)], fds, data)
    /\ last' = [NoEv EXCEPT !.op = "external"]
    /\ rt' = NoRt
    /\ UNCHANGED <<canOpen, writers, builders, sinks, sinkVars, cfgVars>>

\* the path stops or starts being openable (permissions, directory, limits)
ExtPermission ==
    /\ canOpen' = ~canOpen
    /\ last' = [NoEv EXCEPT !.op = "external"]
    /\ rt' = NoRt
    /\ UNCHANGED <<dir, data, fds, writers, builders, sinks, sinkVars, cfgVars>>

----------------------------------------------------------------------------
(* The appender under external events: a builder made by                   *)
(* FileLoggerBuilder::new(p), the loggers built from it, their writes and  *)
(* what other processes do to the paths.                                   *)
InitWriter ==
    /\ InitFs
    /\ InitIdle
    /\ \E p \in RealPaths :
          writers = <<FileAppenderNew(p) @@ [owner |-> "builder"]>>
    /\ builders = <<FileLoggerBuilderNew(1)>>
    /\ sinks = <<>>

NextWriter ==
    \/ \E i \in 1..MaxWriters : Build(i)
    \/ \E w \in 1..MaxWriters, buf \in Bufs : Write(w, buf)
    \/ \E p \in RealPaths : ExtDelete(p)
    \/ \E p, q \in RealPaths : ExtRename(p, q)
    \/ \E p \in RealPaths : ExtTruncate(p)
    \/ \E p \in RealPaths : ExtCreate(p)
    \/ ExtPermission

SpecWriter == InitWriter /\ [][NextWriter]_vars

(* Appenders and their clones: builds, clones, writes and flushes.         *)
NextClone ==
    \/ \E i \in 1..MaxWriters : Build(i)
    \/ \E s \in 1..MaxWriters : Clone(s)
    \/ \E w \in 1..MaxWriters, buf \in Bufs : Write(w, buf)
    \/ \E w \in 1..MaxWriters : Flush(w)
    \/ \E p \in RealPaths : ExtDelete(p)
    \/ ExtPermission

SpecClone == InitWriter /\ [][NextClone]_vars

----------------------------------------------------------------------------
(* A built logger at work: producers log records, the worker of the        *)
(* asynchronous drain takes them off the queue and writes them.  A record  *)
(* is its level; its rendering by the format is the one-element line <<l>>.*)

ChanSizes == {1, 2}

\* the wrappers of a logger outside the asynchronous drain, and inside it
Outer(lg) ==
    SubSeq(lg.layers, 1, (CHOOSE k \in 1..Len(lg.layers) : lg.layers[k] = "async") - 1)
Inner(lg) ==
    SubSeq(lg.layers, (CHOOSE k \in 1..Len(lg.layers) : lg.layers[k] = "async") + 1,
           Len(lg.layers))

\* whether the wrappers `ls` let a record of level l through
Admit(ls, l, minimum) ==
    \A k \in 1..Len(ls) : ls[k] = "level_filter" => passes(l, minimum)

InitSink ==
    /\ InitFs
    /\ InitIdle
    /\ \E p \in RealPaths :
          writers = <<FileAppenderNew(p) @@ [owner |-> "builder"],
                      clone(FileAppenderNew(p)) @@ [owner |-> "sink"]>>
    /\ \E m \in Severities, c \in ChanSizes :
          builders = <<channel_size(level(FileLoggerBuilderNew(1), m), c)>>
    /\ sinks = <<build(builders[1], 2).logger>>

\* a producer logs a record of level l to the logger
Log(l) ==
    /\ Len(emitted) < MaxEmit
    /\ emitted' = Append(emitted, l)
    /\ LET lg == sinks[1]
       IN IF Admit(Outer(lg), l, lg.level)
          THEN /\ offered' = Append(offered, l)
               /\ queue' = IF Len(queue) < lg.channel_size
                           THEN Append(queue, l)
                           ELSE queue
          ELSE UNCHANGED <<offered, queue>>
    /\ last' = [NoEv EXCEPT !.op = "log"]
    /\ UNCHANGED <<fsVars, writers, builders, sinks, rt, cfgVars>>

\* the worker takes the oldest queued record and hands it to the inner drain
Drain ==
    /\ queue # <<>>
    /\ queue' = Tail(queue)
    /\ LET lg == sinks[1]
           l == Head(queue)
           w == lg.drain.appender
           r == write(Appender(w), w, <<l>>)
       IN IF Admit(Inner(lg), l, lg.level)
          THEN /\ SetFs(r.dir, r.fds, r.data)
               /\ writers' = [writers EXCEPT ![w].file = r.file]
               /\ last' = [NoEv EXCEPT !.op = "drain", !.w = w, !.buf = <<l>>,
                              !.res = r.res, !.tried = r.tried]
          ELSE /\ UNCHANGED <<dir, fds, data, writers>>
               /\ last' = [NoEv EXCEPT !.op = "drain"]
    /\ UNCHANGED <<canOpen, builders, sinks, rt, emitted, offered, cfgVars>>

NextSink ==
    \/ \E l \in Severities : Log(l)
    \/ Drain

SpecSink == InitSink /\ [][NextSink]_vars

----------------------------------------------------------------------------
(* Configuration: a document is deserialized into a LoggerConfig, which    *)
(* try_to_builder turns into a LoggerBuilder and build_logger into a       *)
(* logger.  An optional key of a document is the empty set when omitted    *)
(* and {v} when given as v.                                                *)

Opt(S) == {{}} \cup {{x} : x \in S}
Get(o, dflt) == IF o = {} THEN dflt ELSE CHOOSE x \in o : TRUE

ChanSizesDoc == {1, 2048}
Streams == {"stdout", "stderr"}

FileDocs ==
    [tag : {"file"}, path : Opt(Paths), level : Opt(Severities),
     format : Opt(Formats), timezone : Opt(TimeZones),
     channel_size : Opt(ChanSizesDoc)]
NullDocs == [tag : {"null"}]
TerminalDocs ==
    [tag : {"terminal"}, level : Opt(Severities), format : Opt(Formats),
     timezone : Opt(TimeZones), destination : Opt(Streams)]
Docs == FileDocs \cup NullDocs \cup TerminalDocs

\* fn default_channel_size
default_channel_size == 1024

\* the Deserialize that serde derives for LoggerConfig (tag = "type") and
\* for FileLoggerConfig: `path` is required, the other keys have defaults
Deserialize(d) ==
    CASE d.tag = "file" ->
           IF d.path = {}
           THEN [ok |-> FALSE, error |-> "missing field path"]
           ELSE [ok |-> TRUE,
                 value |-> [tag |-> "file",
                            level |-> Get(d.level, SeverityDefault),
                            format |-> Get(d.format, FormatDefault),
                            timezone |-> Get(d.timezone, TimeZoneDefault),
                            path |-> Get(d.path, ""),
                            channel_size |-> Get(d.channel_size, default_channel_size)]]
      [] d.tag = "null" -> [ok |-> TRUE, value |-> [tag |-> "null"]]
      [] d.tag = "terminal" ->
           [ok |-> TRUE,
            value |-> [tag |-> "terminal",
                       level |-> Get(d.level, SeverityDefault),
                       format |-> Get(d.format, FormatDefault),
                       timezone |-> Get(d.timezone, TimeZoneDefault),
                       destination |-> Get(d.destination, "stderr")]]

\* the Default that is derived for FileLoggerConfig
FileLoggerConfigDefault ==
    [tag |-> "file", level |-> SeverityDefault, format |-> FormatDefault,
     timezone |-> TimeZoneDefault, path |-> "", channel_size |-> 0]

\* a conversion that leaves the channel size of the new builder alone
FileLoggerConfig_try_to_builder_NoChannelSize(c, w) ==
    [ok |-> TRUE,
     builder |-> timezone(format(level(FileLoggerBuilderNew(w), c.level),
                                 c.format), c.timezone)]

\* <FileLoggerConfig as Config>::try_to_builder, the appender of the new
\* builder being stored as writer w
FileLoggerConfig_try_to_builder(c, w) ==
    [ok |-> TRUE,
     builder |-> channel_size(timezone(format(level(FileLoggerBuilderNew(w), c.level),
                                              c.format), c.timezone),
                              c.channel_size)]

\* the conversions of NullLoggerConfig and TerminalLoggerConfig, whose
\* outcome `conv` is "Ok" or the kind of the error they fail with
Variant_try_to_builder(c, conv) ==
    IF conv = "Ok" THEN [ok |-> TRUE, builder |-> c]
    ELSE [ok |-> FALSE, kind |-> conv]

\* <LoggerConfig as Config>::try_to_builder; track! adds a location to an
\* error and keeps its kind
LoggerConfig_try_to_builder(c, w, conv) ==
    LET r == IF c.tag = "file" THEN FileLoggerConfig_try_to_builder(c, w)
             ELSE Variant_try_to_builder(c, conv)
    IN IF r.ok
       THEN [ok |-> TRUE,
             builder |-> [kind |-> CASE c.tag = "file" -> "File"
                                     [] c.tag = "null" -> "Null"
                                     [] c.tag = "terminal" -> "Terminal",
                          builder |-> r.builder]]
       ELSE r

\* LoggerBuilder::build: the build of the variant; the outcome of a null or
\* terminal build is `bconv`
LoggerBuilder_build(lb, w, bconv) ==
    IF lb.kind = "File" THEN build(lb.builder, w) @@ [kind |-> "File"]
    ELSE IF bconv = "Ok"
         THEN [ok |-> TRUE, kind |-> lb.kind, logger |-> lb.builder]
         ELSE [ok |-> FALSE, kind |-> bconv]

\* Config::build_logger: try_to_builder, then build, each under track_try!
build_logger(c, conv, bconv) ==
    LET t == LoggerConfig_try_to_builder(c, 1, conv)
    IN IF ~t.ok THEN t
       ELSE LoggerBuilder_build(t.builder, 2, bconv)

Outcomes == {"Ok", "Invalid", "Other"}

InitConfig ==
    /\ InitFs
    /\ last = NoEv
    /\ rt = NoRt
    /\ emitted = <<>>
    /\ offered = <<>>
    /\ queue = <<>>
    /\ writers = <<>>
    /\ builders = <<>>
    /\ sinks = <<>>
    /\ doc \in Docs
    /\ out = [op |-> "init"]

\* the document is deserialized
Parse ==
    /\ out.op = "init"
    /\ out' = [op |-> "parse", via |-> "parse", cfg |-> Deserialize(doc)]
    /\ UNCHANGED <<fsVars, writers, builders, sinks, last, rt, sinkVars, doc>>

\* the configuration is FileLoggerConfig::default() instead
UseDefault ==
    /\ out.op = "init"
    /\ out' = [op |-> "parse", via |-> "default",
               cfg |-> [ok |-> TRUE, value |-> FileLoggerConfigDefault]]
    /\ UNCHANGED <<fsVars, writers, builders, sinks, last, rt, sinkVars, doc>>

\* LoggerConfig::try_to_builder on the configuration
TryToBuilder(conv) ==
    /\ out.op = "parse"
    /\ out.cfg.ok
    /\ LET c == out.cfg.value
           r == LoggerConfig_try_to_builder(c, 1, conv)
       IN /\ out' = [op |-> "try_to_builder", via |-> out.via, cfg |-> out.cfg,
                     conv |-> conv, bconv |-> "Ok", res |-> r]
          /\ IF c.tag = "file" /\ r.ok
             THEN /\ writers' = <<FileAppenderNew(c.path) @@ [owner |-> "builder"]>>
                  /\ builders' = <<r.builder.builder>>
             ELSE UNCHANGED <<writers, builders>>
    /\ UNCHANGED <<fsVars, sinks, last, rt, sinkVars, doc>>

\* Config::build_logger on the configuration
BuildLogger(conv, bconv) ==
    /\ out.op = "parse"
    /\ out.cfg.ok
    /\ LET c == out.cfg.value
           t == LoggerConfig_try_to_builder(c, 1, conv)
           r == build_logger(c, conv, bconv)
       IN /\ out' = [op |-> "build_logger", via |-> out.via, cfg |-> out.cfg,
                     conv |-> conv, bconv |-> bconv, res |-> r]
          /\ IF c.tag = "file" /\ t.ok
             THEN /\ writers' = <<FileAppenderNew(c.path) @@ [owner |-> "builder"],
                                  clone(FileAppenderNew(c.path)) @@ [owner |-> "sink"]>>
                  /\ builders' = <<t.builder.builder>>
                  /\ sinks' = IF r.ok THEN <<r.logger>> ELSE sinks
             ELSE UNCHANGED <<writers, builders, sinks>>
    /\ UNCHANGED <<fsVars, last, rt, sinkVars, doc>>

NextConfig ==
    \/ Parse
    \/ UseDefault
    \/ \E conv \in Outcomes : TryToBuilder(conv)
    \/ \E conv, bconv \in Outcomes : BuildLogger(conv, bconv)

SpecConfig == InitConfig /\ [][NextConfig]_vars

----------------------------------------------------------------------------
(* Claims about the appender under external events (SpecWriter)            *)

\* the path of the appender that the last operation was on
LastPath == writers[last.w].path

\* C1: a write that succeeded, then the external deletion of the file, then
\* a write by the same appender (the path still being openable): the second
\* write succeeds, a file exists at the path again, and it holds exactly the
\* bytes of the second write.
C1_DeleteRoundTrip ==
    (rt.stage = 3 /\ canOpen) =>
        /\ last.res = "Ok"
        /\ path_exists(LastPath)
        /\ data[dir[LastPath]] = last.buf

C1_Witness ==
    /\ rt.stage = 3
    /\ canOpen
    /\ last.res = "Ok"
    /\ rt.b1 # last.buf

\* C2 as stated: a write reopens exactly when the path exists or no handle
\* is held.
C2_ReopensWhenPathExists ==
    [][last'.op = "write" =>
          (last'.tried <=> (path_exists(writers[last'.w].path)
                            \/ writers[last'.w].file = 0))]_vars

\* C2 amended: a write reopens exactly when the path does NOT exist or no
\* handle is held; a reopen that succeeds leaves the appender with a handle
\* on the file the path names (created empty if it was absent, kept if it
\* was there) and the bytes are appended through it; without a reopen the
\* handle is kept and the bytes are appended through it.
C2_ReopensWhenPathMissing ==
    [][last'.op = "write" =>
          LET w == last'.w
              p == writers[w].path
              h == writers'[w].file
          IN /\ last'.tried <=> (~path_exists(p) \/ writers[w].file = 0)
             /\ (last'.tried /\ last'.res = "Ok") =>
                   /\ h # 0
                   /\ dir'[p] # 0
                   /\ fds'[h] = dir'[p]
                   /\ data'[dir'[p]] =
                         (IF path_exists(p) THEN data[dir[p]] ELSE <<>>) \o last'.buf
             /\ ~last'.tried =>
                   /\ last'.res = "Ok"
                   /\ h = writers[w].file
                   /\ data'[fds'[h]] = data[fds[h]] \o last'.buf]_vars

C2_Witness == last.op = "write" /\ ~last.tried /\ last.res = "Ok" /\ last.atPath

\* C3: every write that returns success has appended its bytes to the file
\* that the path names at the time of that write.
C3_NeverStaleHandle ==
    (last.op = "write" /\ last.res = "Ok") => last.atPath

----------------------------------------------------------------------------
(* Claims about clones and flushes (SpecClone)                             *)

\* C4: a clone (and the appender of a built logger, which is a clone of the
\* builder's) has the path of its source and no handle, the appenders that
\* were there are left as they were, an appender without a handle gets a
\* handle of its own on its first successful write, and no two appenders
\* ever hold the same handle.
C4_CloneIsolation ==
    /\ [](\A v, w \in 1..Len(writers) :
             (v # w /\ writers[v].file # 0) => writers[v].file # writers[w].file)
    /\ []((last.op \in {"clone", "build"}) =>
             /\ writers[last.w].path = writers[last.src].path
             /\ writers[last.w].file = 0)
    /\ [][(last'.op \in {"clone", "build"}) =>
             /\ Len(writers') = Len(writers) + 1
             /\ SubSeq(writers', 1, Len(writers)) = writers]_vars
    /\ [][(last'.op = "write" /\ last'.res = "Ok" /\ writers[last'.w].file = 0) =>
             /\ last'.tried
             /\ writers'[last'.w].file # 0
             /\ \A v \in 1..Len(writers) :
                   v # last'.w => writers'[v].file # writers'[last'.w].file]_vars

C4_Witness ==
    /\ last.op = "clone"
    /\ writers[last.src].file # 0
    /\ writers[last.w].file = 0

\* C5: flush on an appender that holds no handle returns success, opens and
\* creates nothing and leaves the appender as it was; with a handle held it
\* flushes that handle and returns its result.
C5_FlushNoHandle ==
    [][last'.op = "flush" =>
          /\ last'.res = "Ok"
          /\ last'.flushed = writers[last'.w].file
          /\ writers' = writers
          /\ dir' = dir /\ data' = data /\ fds' = fds]_vars

C5_Witness ==
    /\ last.op = "flush"
    /\ last.res = "Ok"
    /\ writers[last.w].file = 0
    /\ ~path_exists(LastPath)

\* C7: a build whose destination cannot be opened or created returns an
\* error.
C7_BuildFailsEarly ==
    (last.op = "build" /\ ~OpenOk(LastPath)) => last.res # "Ok"

----------------------------------------------------------------------------
(* Claims about the pipeline of a built logger (SpecSink)                  *)

\* C8: the records handed to the asynchronous drain are exactly the logged
\* records whose level is at or above the logger's minimum, in the order
\* they were logged; no record below the minimum is in the queue or in a
\* file.
C8_FilterBeforeQueue ==
    LET m == sinks[1].level
    IN /\ offered = SelectSeq(emitted, LAMBDA l : Rank(l) >= Rank(m))
       /\ \A k \in 1..Len(queue) : Rank(queue[k]) >= Rank(m)
       /\ \A i \in Inodes : \A k \in 1..Len(data[i]) : Rank(data[i][k]) >= Rank(m)

C8_Witness ==
    /\ Len(offered) >= 1
    /\ Len(offered) < Len(emitted)
    /\ Rank(emitted[1]) < Rank(sinks[1].level)
    /\ \E i \in Inodes : data[i] # <<>>

----------------------------------------------------------------------------
(* Claims about the configuration dispatch (SpecConfig)                    *)

\* the configuration that the last dispatch was given
Cfg == out.cfg.value

\* C6: the dispatch of a file configuration whose path is empty fails with
\* an error of kind Invalid and yields no builder and no logger.
C6_EmptyPathIsInvalid ==
    (/\ out.op \in {"try_to_builder", "build_logger"}
     /\ Cfg.tag = "file"
     /\ Cfg.path = "")
        => (~out.res.ok /\ out.res.kind = "Invalid")

\* what the keys of the document stand for, omitted keys by their defaults
\* (channel_size: 1024)
DocLevel == Get(doc.level, "Info")
DocFormat == Get(doc.format, "Full")
DocTimeZone == Get(doc.timezone, "Local")

\* C9: try_to_builder gives a builder of the kind of the tag, or the error
\* of the variant's conversion with its kind; the file builder has the
\* path, level, format, time zone and channel size of the configuration,
\* which are those of the document with channel_size 1024 when omitted;
\* build_logger gives what try_to_builder and then build give.
C9_Dispatch ==
    /\ (out.op = "try_to_builder" /\ Cfg.tag = "file") =>
          /\ out.res.ok
          /\ out.res.builder.kind = "File"
          /\ LET b == out.res.builder.builder
             IN /\ writers[b.appender].path = Cfg.path
                /\ writers[b.appender].file = 0
                /\ b.level = Cfg.level
                /\ b.format = Cfg.format
                /\ b.timezone = Cfg.timezone
                /\ b.channel_size = Cfg.channel_size
                /\ out.via = "parse" =>
                      /\ doc.path = {Cfg.path}
                      /\ b.level = DocLevel
                      /\ b.format = DocFormat
                      /\ b.timezone = DocTimeZone
                      /\ b.channel_size =
                            (IF doc.channel_size = {} THEN 1024
                             ELSE CHOOSE n \in doc.channel_size : TRUE)
    /\ (out.op = "try_to_builder" /\ Cfg.tag # "file") =>
          IF out.conv = "Ok"
          THEN /\ out.res.ok
               /\ out.res.builder.kind =
                     (IF Cfg.tag = "null" THEN "Null" ELSE "Terminal")
               /\ out.res.builder.builder = Cfg
          ELSE ~out.res.ok /\ out.res.kind = out.conv
    /\ (out.op = "build_logger" /\ Cfg.tag = "file") =>
          /\ out.res.ok
          /\ out.res.kind = "File"
          /\ out.res.logger.level = Cfg.level
          /\ out.res.logger.channel_size = Cfg.channel_size
          /\ out.res.logger.drain.format = Cfg.format
          /\ out.res.logger.drain.timezone = Cfg.timezone
          /\ writers[out.res.logger.drain.appender].path = Cfg.path
          /\ sinks = <<out.res.logger>>
    /\ (out.op = "build_logger" /\ Cfg.tag # "file") =>
          IF out.conv # "Ok" THEN ~out.res.ok /\ out.res.kind = out.conv
          ELSE IF out.bconv # "Ok" THEN ~out.res.ok /\ out.res.kind = out.bconv
          ELSE /\ out.res.ok
               /\ out.res.kind = (IF Cfg.tag = "null" THEN "Null" ELSE "Terminal")

C9_Witness ==
    /\ out.op = "try_to_builder"
    /\ out.via = "parse"
    /\ Cfg.tag = "file"
    /\ doc.channel_size = {}
    /\ doc.level # {}
    /\ out.res.builder.builder.channel_size = 1024

====
